---------------------------- MODULE Spec2Model ----------------------------
(***************************************************************************)
(* A model of the host-independent logic of the fossil rigging toolkit:    *)
(*   util.py         parse, preserveSelection, saveCardStates,             *)
(*                   loadCardStates                                        *)
(*   splineTwist.py  calcInfluence, driverExpression, addTwistControls,    *)
(*                   countJoints, buildSplineTwist                         *)
(* The host scene (objects, attributes, selection, clipboard) is the       *)
(* state; strings are sequences of one-character strings; the weights of   *)
(* calcInfluence are exact rationals <<numerator, denominator>>.           *)
(***************************************************************************)
EXTENDS Integers, Sequences, FiniteSets, TLC

VARIABLES
    names,        \* parse: the argument string, a sequence of characters
    parseOut,     \* parse: what the call produced
    parsePc,      \* parse: "ready" | "done"
    controls,     \* calcInfluence, driverExpression: the list of controls
    inflOut,      \* calcInfluence, driverExpression: what the call produced
    inflPc,       \* calcInfluence, driverExpression: "ready" | "done"
    buildArgs,    \* buildSplineTwist: the arguments and the scene it reads
    buildOut,     \* buildSplineTwist: the rig it built
    buildPc,      \* buildSplineTwist: "ready" | "done"
    scene,        \* host: the nodes of the scene and their attributes
    selection,    \* host: the selection list, node ids in order
    clipboard,    \* host: the text on the clipboard, a sequence of tokens
    edits,        \* host: how many changes the user has made
    saved,        \* history: the cards and the scene of the last saveCardStates
    before,       \* history: the scene and selection the running call began with
    loadOut,      \* loadCardStates: what the last call did
    psPc,         \* preserveSelection: "idle" | "in_func" | "returned" | "raised"
    psSel,        \* preserveSelection: newFunc's local sel
    psOut         \* preserveSelection: f's value and the value newFunc returned

parseVars == <<names, parseOut, parsePc>>
inflVars == <<controls, inflOut, inflPc>>
buildVars == <<buildArgs, buildOut, buildPc>>

sceneVars == <<scene, selection, clipboard, edits, saved, before, loadOut>>
psVars == <<psPc, psSel, psOut>>
otherVars == <<names, parseOut, parsePc, controls, inflOut, inflPc,
               buildArgs, buildOut, buildPc, psPc, psSel, psOut>>
psOtherVars == <<names, parseOut, parsePc, controls, inflOut, inflPc,
                 buildArgs, buildOut, buildPc, clipboard, edits, saved, loadOut>>

vars == <<names, parseOut, parsePc, controls, inflOut, inflPc,
          buildArgs, buildOut, buildPc,
          scene, selection, clipboard, edits, saved, before, loadOut,
          psPc, psSel, psOut>>

\* A node of the host scene is named by a tuple of name parts; Python's None
\* is the empty tuple.
None == <<>>

(***************************************************************************)
(* util.parse                                                              *)
(***************************************************************************)

\* Longest argument string of parse that is explored.
MaxStrLen == 6

\* The characters argument strings are built from: a letter, a digit, the
\* repeat marker and whitespace.
Letters == {"a"}
Digits == {"1"}
Star == "*"
Whitespace == {" "}
Alphabet == Letters \cup Digits \cup {Star} \cup Whitespace

RECURSIVE SeqsUpTo(_, _)
SeqsUpTo(S, n) ==
    IF n = 0 THEN {<<>>}
    ELSE LET shorter == SeqsUpTo(S, n - 1)
         IN  shorter \cup {Append(s, c) : s \in {t \in shorter : Len(t) = n - 1}, c \in S}

\* str.split() with no argument: the maximal runs of non-whitespace characters.
RECURSIVE SplitFrom(_, _, _, _)
SplitFrom(s, i, cur, acc) ==
    IF i > Len(s)
    THEN IF cur = <<>> THEN acc ELSE Append(acc, cur)
    ELSE IF s[i] \in Whitespace
         THEN SplitFrom(s, i + 1, <<>>, IF cur = <<>> THEN acc ELSE Append(acc, cur))
         ELSE SplitFrom(s, i + 1, Append(cur, s[i]), acc)

Split(s) == SplitFrom(s, 1, <<>>, <<>>)

\* name.endswith('*')
EndsWithStar(name) == Len(name) > 0 /\ name[Len(name)] = Star

\* re.search('^[a-zA-Z_][a-zA-Z0-9_]*$', name)
IsIdentifier(name) ==
    /\ Len(name) > 0
    /\ name[1] \in Letters
    /\ \A i \in 2..Len(name) : name[i] \in Letters \cup Digits

\* The loop of parse over the names: it stops with "multiple" at the second
\* name marked with '*', and otherwise collects the repeater and the names
\* that fail the identifier pattern.
RECURSIVE ScanNamesNoCheck(_, _, _, _)
ScanNamesNoCheck(ns, i, repeat, invalid) ==
    IF i > Len(ns) THEN [raised |-> FALSE, repeat |-> repeat, invalid |-> invalid]
    ELSE IF EndsWithStar(ns[i])
         THEN ScanNamesNoCheck(ns, i + 1, ns[i], invalid)
         ELSE ScanNamesNoCheck(ns, i + 1, repeat,
                               IF IsIdentifier(ns[i]) THEN invalid ELSE Append(invalid, ns[i]))

RECURSIVE ScanNames(_, _, _, _)
ScanNames(ns, i, repeat, invalid) ==
    IF i > Len(ns) THEN [raised |-> FALSE, repeat |-> repeat, invalid |-> invalid]
    ELSE IF EndsWithStar(ns[i])
         THEN IF repeat # <<>>
              THEN [raised |-> TRUE, repeat |-> repeat, invalid |-> invalid]
              ELSE ScanNames(ns, i + 1, ns[i], invalid)
         ELSE ScanNames(ns, i + 1, repeat,
                        IF IsIdentifier(ns[i]) THEN invalid ELSE Append(invalid, ns[i]))

\* names.index(repeat): the first position holding the value.
IndexOf(ns, x) == CHOOSE i \in 1..Len(ns) : ns[i] = x /\ \A j \in 1..(i - 1) : ns[j] # x

\* The head and tail around the repeater (lines 41-52), a mutant of it that
\* keeps the repeater in the tail, and the code's version.
HeadTailKeepRepeat(ns, repeat) ==
    IF repeat = <<>> THEN [head |-> ns, tail |-> <<>>]
    ELSE IF repeat = ns[Len(ns)] THEN [head |-> SubSeq(ns, 1, Len(ns) - 1), tail |-> <<>>]
    ELSE IF repeat = ns[1] THEN [head |-> <<>>, tail |-> SubSeq(ns, 2, Len(ns))]
    ELSE LET i == IndexOf(ns, repeat)
         IN  [head |-> SubSeq(ns, 1, i - 1), tail |-> SubSeq(ns, i, Len(ns))]

HeadTail(ns, repeat) ==
    IF repeat = <<>> THEN [head |-> ns, tail |-> <<>>]
    ELSE IF repeat = ns[Len(ns)] THEN [head |-> SubSeq(ns, 1, Len(ns) - 1), tail |-> <<>>]
    ELSE IF repeat = ns[1] THEN [head |-> <<>>, tail |-> SubSeq(ns, 2, Len(ns))]
    ELSE LET i == IndexOf(ns, repeat)
         IN  [head |-> SubSeq(ns, 1, i - 1), tail |-> SubSeq(ns, i + 1, Len(ns))]

\* What a call of parse produces: a returned triple, or an exception with
\* its kind and the names its message lists.
ParseReturn(head, repeat, tail) ==
    [status |-> "return", head |-> head, repeat |-> repeat, tail |-> tail,
     error |-> "none", listed |-> <<>>]

ParseRaise(kind, listed) ==
    [status |-> "raise", head |-> <<>>, repeat |-> <<>>, tail |-> <<>>,
     error |-> kind, listed |-> listed]

parse(s) ==
    LET ns == Split(s)
        scan == ScanNames(ns, 1, <<>>, <<>>)
    IN  IF scan.raised THEN ParseRaise("multiple", <<>>)
        ELSE IF scan.invalid # <<>> THEN ParseRaise("invalid", scan.invalid)
        ELSE LET ht == HeadTail(ns, scan.repeat)
                 repeat == IF scan.repeat # <<>>
                           THEN SubSeq(scan.repeat, 1, Len(scan.repeat) - 1)
                           ELSE scan.repeat
             IN  ParseReturn(ht.head, repeat, ht.tail)

(***************************************************************************)
(* Exact rational arithmetic for the weights: <<n, d>> in lowest terms,    *)
(* d > 0.                                                                  *)
(***************************************************************************)
Abs(x) == IF x < 0 THEN -x ELSE x

RECURSIVE GCD(_, _)
GCD(a, b) == IF b = 0 THEN a ELSE GCD(b, a % b)

Rat(n, d) ==
    LET g == GCD(Abs(n), Abs(d))
        sgn == IF d < 0 THEN -1 ELSE 1
    IN  <<(sgn * n) \div g, (sgn * d) \div g>>

RatInt(k) == <<k, 1>>
RatMul(a, b) == Rat(a[1] * b[1], a[2] * b[2])
RatDiv(a, b) == Rat(a[1] * b[2], a[2] * b[1])
RatSub(a, b) == Rat(a[1] * b[2] - b[1] * a[2], a[2] * b[2])
RatLess(a, b) == a[1] * b[2] < b[1] * a[2]

(***************************************************************************)
(* splineTwist.calcInfluence and driverExpression                          *)
(***************************************************************************)

\* Longest list of controls given to calcInfluence and driverExpression.
MaxLen == 6

\* The controls and joints of driverExpression's docstring.
ControlNames == {<<"X">>, <<"Y">>, <<"Z">>}
DrivenNames == {<<"A">>, <<"B">>}
Axes == {"x", "y", "z"}

InflReturn(powers) == [status |-> "return", error |-> "none", powers |-> powers]
InflRaise(error) == [status |-> "raise", error |-> error, powers |-> <<>>]

\* upper = int(len(controls) / 2 + 1) under true division: the value is
\* positive, so int() is the floor.
UpperOf(n) == (n \div 2) + 1

\* lower, by the parity of the length (lines 619-624).
LowerOf(n) == IF n % 2 = 0 THEN UpperOf(n) - 2 ELSE UpperOf(n) - 1

\* The pairs zip(range(upper, max), range(lower - 1, -1, -1)) yields.
Max(a, b) == IF a > b THEN a ELSE b
Min(a, b) == IF a < b THEN a ELSE b
PairCount(n) == Min(Max(n - UpperOf(n), 0), Max(LowerOf(n), 0))

\* The loop of lines 630-633, pair i of count; Python index k is position
\* k + 1 here.  First a mutant whose step is not scaled by the pair's index.
RECURSIVE InfluenceLoopFlat(_, _, _, _, _, _)
InfluenceLoopFlat(powers, i, count, upper, lower, delta) ==
    IF i > count THEN powers
    ELSE LET power == RatSub(RatInt(1), delta)
             lowCtrl == upper + (i - 1)
             upCtrl == (lower - 1) - (i - 1)
         IN  InfluenceLoopFlat([powers EXCEPT ![lowCtrl + 1] = power, ![upCtrl + 1] = power],
                               i + 1, count, upper, lower, delta)

RECURSIVE InfluenceLoop(_, _, _, _, _, _)
InfluenceLoop(powers, i, count, upper, lower, delta) ==
    IF i > count THEN powers
    ELSE LET power == RatSub(RatInt(1), RatMul(delta, RatInt(i)))
             lowCtrl == upper + (i - 1)
             upCtrl == (lower - 1) - (i - 1)
         IN  InfluenceLoop([powers EXCEPT ![lowCtrl + 1] = power, ![upCtrl + 1] = power],
                           i + 1, count, upper, lower, delta)

calcInfluence(ctrls) ==
    LET max == Len(ctrls)
        upper == UpperOf(max)
        lower == LowerOf(max)
    IN  IF lower = 0 THEN InflRaise("ZeroDivisionError")
        ELSE LET delta == RatMul(RatDiv(RatInt(1), RatInt(lower)), <<1, 2>>)
                 ones == [k \in 1..max |-> RatInt(1)]
             IN  InflReturn(InfluenceLoop(ones, 1, PairCount(max), upper, lower, delta))

\* A term '{ctrl}.r{axis} * {power}' of the expression.
Term(ctrl, power, axis) == [ctrl |-> ctrl, axis |-> axis, power |-> power]

\* The loop of lines 592-594 over zip(powers, controls); first a mutant that
\* also writes a term for a None placeholder.
RECURSIVE ExpressionTermsAll(_, _, _, _)
ExpressionTermsAll(powers, ctrls, axis, i) ==
    IF i > Min(Len(powers), Len(ctrls)) THEN <<>>
    ELSE <<Term(ctrls[i], powers[i], axis)>> \o ExpressionTermsAll(powers, ctrls, axis, i + 1)

RECURSIVE ExpressionTerms(_, _, _, _)
ExpressionTerms(powers, ctrls, axis, i) ==
    IF i > Min(Len(powers), Len(ctrls)) THEN <<>>
    ELSE (IF ctrls[i] # None THEN <<Term(ctrls[i], powers[i], axis)>> ELSE <<>>)
         \o ExpressionTerms(powers, ctrls, axis, i + 1)

\* The expression '{driven}.r{axis} = term + term + ...;' or the exception
\* of calcInfluence.
DriverReturn(driven, axis, terms) ==
    [status |-> "return", error |-> "none", driven |-> driven, axis |-> axis, terms |-> terms]
DriverRaise(error) ==
    [status |-> "raise", error |-> error, driven |-> None, axis |-> "", terms |-> <<>>]

driverExpression(driven, ctrls, axis) ==
    LET powers == calcInfluence(ctrls)
    IN  IF powers.status = "raise" THEN DriverRaise(powers.error)
        ELSE DriverReturn(driven, axis, ExpressionTerms(powers.powers, ctrls, axis, 1))

(***************************************************************************)
(* splineTwist.countJoints, addTwistControls and buildSplineTwist          *)
(***************************************************************************)

\* Bounds on the arguments of buildSplineTwist that are explored: the twist
\* influence asked for, the joints from start to end, the control vertices
\* of the curve, and the joints of the scenes whose orientations vary.
MaxInfDist == 3
MaxJoints == 5
MaxCVs == 5
MaxOrientJoints == 3

\* controlCount must be more than 3 (line 96); a cubic curve has at least 4
\* control vertices.
MinCVs == 4

\* World rotations joints and controls can have, as abstract values.
Rotations == {"r0", "r90"}

OrientModes == {"closest_joint", "world", "as_first_joint"}

\* The chain is joint 1 (start) to joint chainLen (end), each the child of
\* the one before; joint 0 is start's parent and has no parent.
NoJoint == -1
ParentOf(j) == IF j > 0 THEN j - 1 ELSE NoJoint

\* The loop of countJoints (lines 566-573).
RECURSIVE CountJointsLoop(_, _, _)
CountJointsLoop(p, start, count) ==
    IF p # NoJoint /\ p # start
    THEN CountJointsLoop(ParentOf(p), start, count + 1)
    ELSE IF p = NoJoint THEN 0 ELSE count

countJoints(start, end) == CountJointsLoop(ParentOf(end), start, 2)

\* int(x / float(y)) for integers x and y > 0: the quotient truncated
\* towards zero.
TruncDiv(x, y) == IF x >= 0 THEN x \div y ELSE -((-x) \div y)

\* Lines 272-275: the influence distance buildSplineTwist uses.  First a
\* mutant without the max(1, ...) of line 275.
TwistInfDistNoFloor(twistInfDist, numJoints, numControls) ==
    IF twistInfDist # 0 THEN twistInfDist
    ELSE TruncDiv(numJoints - numControls, numControls - 1)

TwistInfDist(twistInfDist, numJoints, numControls) ==
    IF twistInfDist # 0 THEN twistInfDist
    ELSE Max(1, TruncDiv(numJoints - numControls, numControls - 1))

\* Python's list[a:b] for 0 <= a <= b.
PySlice(list, a, b) == SubSeq(list, a + 1, Min(b, Len(list)))

Repeat(x, n) == [k \in 1..n |-> x]

TwistCtrl(j) == <<"twist", j>>
Spinner(i) == <<"spinner", i>>

\* bigList[i: i + influenceRange] of line 473, for Python index i.  First a
\* mutant whose window starts one entry late.
TwistWindowLate(bigList, i, influenceRange) == PySlice(bigList, i + 1, i + 1 + influenceRange)

TwistWindow(bigList, i, influenceRange) == PySlice(bigList, i, i + influenceRange)

\* addTwistControls: one twist control and one spinner per joint of the
\* chain, and one expression per spinner over its window of bigList.  The
\* result keeps the windows, which are the lists calcInfluence was given.
addTwistControls(chainLen, influenceDist, axis) ==
    LET twists == [j \in 1..chainLen |-> TwistCtrl(j - 1)]
        bigList == Repeat(None, influenceDist) \o twists \o Repeat(None, influenceDist)
        influenceRange == (influenceDist * 2) + 1
        windows == [i \in 1..chainLen |-> TwistWindow(bigList, i - 1, influenceRange)]
        exprs == [i \in 1..chainLen |-> driverExpression(Spinner(i - 1), windows[i], axis)]
        failed == {i \in 1..chainLen : exprs[i].status = "raise"}
    IN  [status |-> IF failed = {} THEN "return" ELSE "raise",
         error |-> IF failed = {} THEN "none" ELSE "ZeroDivisionError",
         twists |-> twists, windows |-> windows, exprs |-> exprs]

\* Lines 92-93: buildSplineTwist overwrites both arguments on entry.
MatchOrientUsed(args) == FALSE
UseLeadOrientUsed(args) == FALSE

\* The controls addControlsToCurve makes, one per control vertex of the
\* curve: the curve ikHandle makes has controlCount vertices, and tipBend
\* and sourceBend each insert one (lines 147-164); a given curve is used as
\* it is.
CurveCVs(args) ==
    IF args.ctrlKind = "count"
    THEN args.ctrlNum + (IF args.tipBend THEN 1 ELSE 0) + (IF args.sourceBend THEN 1 ELSE 0)
    ELSE args.ctrlNum

Ctrl(name, rot) == [name |-> name, rot |-> rot]

\* Lines 173-194: with CLOSEST_JOINT every control takes the world rotation
\* of the joint closest to it.
OrientToClosest(args, ctrls) ==
    IF args.controlOrient = "closest_joint"
    THEN [k \in 1..Len(ctrls) |-> Ctrl(ctrls[k].name, args.jointRot[args.closest[k]])]
    ELSE ctrls

\* Lines 225-236: the last control takes over from the one before it.
TipBend(args, ctrls) ==
    IF args.tipBend
    THEN LET n == Len(ctrls)
             last == IF UseLeadOrientUsed(args) /\ ~MatchOrientUsed(args)
                     THEN Ctrl(ctrls[n].name, args.jointRot[args.chainLen])
                     ELSE ctrls[n]
         IN  SubSeq(ctrls, 1, n - 2) \o <<last>>
    ELSE ctrls

\* Lines 243-260: the first control takes over from the second.
SourceBend(args, ctrls) ==
    IF args.sourceBend
    THEN LET first == IF UseLeadOrientUsed(args) /\ ~MatchOrientUsed(args)
                      THEN Ctrl(ctrls[1].name, args.jointRot[1])
                      ELSE ctrls[1]
         IN  <<first>> \o SubSeq(ctrls, 3, Len(ctrls))
    ELSE ctrls

\* Lines 332-337: the controls take the start joint's world rotation when
\* useLeadOrient is still set.
LeadOrient(args, ctrls) ==
    IF UseLeadOrientUsed(args)
    THEN [k \in 1..Len(ctrls) |-> Ctrl(ctrls[k].name, args.jointRot[1])]
    ELSE ctrls

BuildReturn(ctrls, dist, twist) ==
    [status |-> "return", error |-> "none", controls |-> ctrls, dist |-> dist,
     twists |-> twist.twists, windows |-> twist.windows, exprs |-> twist.exprs]

BuildRaise(error) ==
    [status |-> "raise", error |-> error, controls |-> <<>>, dist |-> 0,
     twists |-> <<>>, windows |-> <<>>, exprs |-> <<>>]

buildSplineTwist(args) ==
    IF args.ctrlKind = "count" /\ ~(args.ctrlNum > 3) THEN BuildRaise("AssertionError")
    ELSE
    LET made == [k \in 1..CurveCVs(args) |-> Ctrl(<<"ctrl", k>>, args.ctrlRot)]
        oriented == OrientToClosest(args, made)
        ctrls == SourceBend(args, TipBend(args, oriented))
        numJoints == countJoints(1, args.chainLen)
    IN  IF args.twistInfDist = 0 /\ Len(ctrls) - 1 = 0 THEN BuildRaise("ZeroDivisionError")
        ELSE
        LET dist == TwistInfDist(args.twistInfDist, numJoints, Len(ctrls))
            twist == addTwistControls(args.chainLen, dist, args.jointAxis)
        IN  IF twist.status = "raise" THEN BuildRaise(twist.error)
            ELSE BuildReturn(LeadOrient(args, ctrls), dist, twist)

(***************************************************************************)
(* The host scene util.py works on: nodes with a name, a class and         *)
(* attributes; the selection list; the clipboard.                          *)
(***************************************************************************)

\* How many changes the user makes to the scene, selection and clipboard,
\* and how many nodes the user selects at once.
MaxEdits == 3
MaxUserSel == 1

Nodes == {1, 2, 3, 4}
NodeNames == {"A", "B", "C", "D", "J"}
Values == {"v0", "v1"}
NoAttr == "<no attribute>"

\* 'outputShape' + side + kinematic, in the order of the loops of lines
\* 321-323 and 353-355.
Sides == <<"Left", "Center", "Right">>
Kinematics == <<"ik", "fk">>
ShapeAttr(side, kinematic) ==
    CASE side = "Left" /\ kinematic = "ik" -> "outputShapeLeftik"
      [] side = "Left" /\ kinematic = "fk" -> "outputShapeLeftfk"
      [] side = "Center" /\ kinematic = "ik" -> "outputShapeCenterik"
      [] side = "Center" /\ kinematic = "fk" -> "outputShapeCenterfk"
      [] side = "Right" /\ kinematic = "ik" -> "outputShapeRightik"
      [] side = "Right" /\ kinematic = "fk" -> "outputShapeRightfk"
ShapeAttrOrder ==
    [i \in 1..(Len(Sides) * Len(Kinematics)) |->
        ShapeAttr(Sides[((i - 1) \div Len(Kinematics)) + 1],
                  Kinematics[((i - 1) % Len(Kinematics)) + 1])]
ShapeAttrs == {ShapeAttrOrder[i] : i \in DOMAIN ShapeAttrOrder}
AttrNames == {"moRigState"} \cup ShapeAttrs

NoShapes == [a \in ShapeAttrs |-> NoAttr]
Node(kind, name, mo, shapes) ==
    [kind |-> kind, name |-> name, exists |-> TRUE,
     attrs |-> [a \in AttrNames |-> IF a = "moRigState" THEN mo ELSE shapes[a]]]

\* The scene the user starts from: three cards, which differ in their state
\* and in the shape attributes they carry, and a joint.
StartScene ==
    [n \in Nodes |->
        CASE n = 1 -> Node("Card", "A", "v0", [NoShapes EXCEPT !["outputShapeLeftik"] = "v0"])
          [] n = 2 -> Node("Card", "B", "v0", NoShapes)
          [] n = 3 -> Node("Card", "C", "v1", NoShapes)
          [] n = 4 -> Node("joint", "J", NoAttr, NoShapes)]

hasAttr(sc, n, a) == sc[n].attrs[a] # NoAttr
Existing(sc) == {n \in Nodes : sc[n].exists}
objExists(sc, name) == \E n \in Existing(sc) : sc[n].name = name
PyNode(sc, name) == CHOOSE n \in Existing(sc) : sc[n].name = name

\* The ids of a set in ascending order: the order the host lists nodes in.
RECURSIVE Ascending(_)
Ascending(S) ==
    IF S = {} THEN <<>>
    ELSE LET m == CHOOSE x \in S : \A y \in S : x <= y
         IN  <<m>> \o Ascending(S \ {m})

Cards(sc) == {n \in Existing(sc) : sc[n].kind = "Card"}

\* core.findNode.allCards()
allCards(sc) == Ascending({n \in Existing(sc) : sc[n].kind = "Card"})

\* getSelectedCards (lines 301-302)
getSelectedCards(sc, sel) == SelectSeq(sel, LAMBDA n : sc[n].kind = "Card")

(***************************************************************************)
(* json.dumps and json.loads over the values saveCardStates writes: a      *)
(* Python value is a string or a dict, a dict the sequence of its          *)
(* <<key, value>> items; a JSON text is a sequence of tokens.              *)
(***************************************************************************)
PyStr(str) == [kind |-> "str", str |-> str, items |-> <<>>]
PyDict(items) == [kind |-> "dict", str |-> "", items |-> items]

Tok(kind, text) == <<kind, text>>
LBrace == Tok("punct", "{")
RBrace == Tok("punct", "}")
Colon == Tok("punct", ":")
Comma == Tok("punct", ",")
StrTok(str) == Tok("string", str)
EndTok == Tok("end", "")

Keys(d) == {d.items[i][1] : i \in 1..Len(d.items)}
Get(d, key) == d.items[CHOOSE i \in 1..Len(d.items) : d.items[i][1] = key][2]

\* d[key] = val
Put(d, key, val) ==
    IF key \in Keys(d)
    THEN PyDict([i \in 1..Len(d.items) |->
                    IF d.items[i][1] = key THEN <<key, val>> ELSE d.items[i]])
    ELSE PyDict(Append(d.items, <<key, val>>))

RECURSIVE dumps(_)
RECURSIVE DumpsItems(_, _)
DumpsItems(items, i) ==
    IF i > Len(items) THEN <<>>
    ELSE (IF i > 1 THEN <<Comma>> ELSE <<>>)
         \o <<StrTok(items[i][1]), Colon>> \o dumps(items[i][2])
         \o DumpsItems(items, i + 1)

dumps(v) ==
    IF v.kind = "str" THEN <<StrTok(v.str)>>
    ELSE <<LBrace>> \o DumpsItems(v.items, 1) \o <<RBrace>>

TokAt(text, i) == IF i >= 1 /\ i <= Len(text) THEN text[i] ELSE EndTok
Parsed(val, next) == [ok |-> TRUE, val |-> val, next |-> next]
NotParsed == [ok |-> FALSE, val |-> PyStr(""), next |-> 0]

RECURSIVE ParseValue(_, _)
RECURSIVE ParseMembers(_, _, _)
ParseMembers(text, i, acc) ==
    IF TokAt(text, i)[1] # "string" \/ TokAt(text, i + 1) # Colon THEN NotParsed
    ELSE LET v == ParseValue(text, i + 2)
         IN  IF ~v.ok THEN NotParsed
             ELSE LET d == Put(acc, TokAt(text, i)[2], v.val)
                  IN  IF TokAt(text, v.next) = Comma THEN ParseMembers(text, v.next + 1, d)
                      ELSE IF TokAt(text, v.next) = RBrace THEN Parsed(d, v.next + 1)
                      ELSE NotParsed

ParseValue(text, i) ==
    IF TokAt(text, i)[1] = "string" THEN Parsed(PyStr(TokAt(text, i)[2]), i + 1)
    ELSE IF TokAt(text, i) = LBrace
         THEN IF TokAt(text, i + 1) = RBrace THEN Parsed(PyDict(<<>>), i + 2)
              ELSE ParseMembers(text, i + 1, PyDict(<<>>))
         ELSE NotParsed

\* json.loads: the whole text must be one value.
loads(text) ==
    LET v == ParseValue(text, 1)
    IN  IF v.ok /\ v.next = Len(text) + 1 THEN v ELSE NotParsed

(***************************************************************************)
(* util.saveCardStates and util.loadCardStates                             *)
(***************************************************************************)

\* Lines 318-325: the state of one card.
RECURSIVE CardShapes(_, _, _, _)
CardShapes(sc, c, info, i) ==
    IF i > Len(ShapeAttrOrder) THEN info
    ELSE LET shapeAttr == ShapeAttrOrder[i]
         IN  CardShapes(sc, c,
                        IF hasAttr(sc, c, shapeAttr)
                        THEN Put(info, shapeAttr, PyStr(sc[c].attrs[shapeAttr]))
                        ELSE info,
                        i + 1)

CardState(sc, c) ==
    CardShapes(sc, c, Put(PyDict(<<>>), "moRigState", PyStr(sc[c].attrs["moRigState"])), 1)

\* Lines 311-314: the selected cards, or all cards when none is selected.
CardsToSave(sc, sel) ==
    IF getSelectedCards(sc, sel) # <<>> THEN getSelectedCards(sc, sel) ELSE allCards(sc)

RECURSIVE CardStateInfo(_, _, _, _)
CardStateInfo(sc, cards, info, i) ==
    IF i > Len(cards) THEN info
    ELSE CardStateInfo(sc, cards, Put(info, sc[cards[i]].name, CardState(sc, cards[i])), i + 1)

\* The text saveCardStates puts on the clipboard.
SavedText(sc, sel) == dumps(CardStateInfo(sc, CardsToSave(sc, sel), PyDict(<<>>), 1))

Applied(sc) == [status |-> "return", error |-> "none", scene |-> sc]
Failed(error, sc) == [status |-> "raise", error |-> error, scene |-> sc]

\* node.attr(name).set(val): the node must carry the attribute.
SetAttr(sc, n, a, val) ==
    IF hasAttr(sc, n, a) /\ val.kind = "str"
    THEN Applied([sc EXCEPT ![n].attrs[a] = val.str])
    ELSE Failed("AttributeError", sc)

InfoHas(info, key) == info.kind = "dict" /\ key \in Keys(info)

\* Lines 353-357 for one card, from shape attribute i on.
RECURSIVE ApplyShapes(_, _, _, _)
ApplyShapes(sc, n, info, i) ==
    IF i > Len(ShapeAttrOrder) THEN Applied(sc)
    ELSE LET shapeAttr == ShapeAttrOrder[i]
         IN  IF InfoHas(info, shapeAttr)
             THEN LET r == SetAttr(sc, n, shapeAttr, Get(info, shapeAttr))
                  IN  IF r.status = "raise" THEN r ELSE ApplyShapes(r.scene, n, info, i + 1)
             ELSE ApplyShapes(sc, n, info, i + 1)

\* Lines 350-357 for one card.
ApplyInfo(sc, n, info) ==
    IF InfoHas(info, "moRigState")
    THEN LET r == SetAttr(sc, n, "moRigState", Get(info, "moRigState"))
         IN  IF r.status = "raise" THEN r ELSE ApplyShapes(r.scene, n, info, 1)
    ELSE ApplyShapes(sc, n, info, 1)

\* The loop of line 349 over cardAndInfo; an exception ends it.
RECURSIVE ApplyAll(_, _, _)
ApplyAll(sc, cardAndInfo, i) ==
    IF i > Len(cardAndInfo) THEN Applied(sc)
    ELSE LET r == ApplyInfo(sc, cardAndInfo[i][1], cardAndInfo[i][2])
         IN  IF r.status = "raise" THEN r ELSE ApplyAll(r.scene, cardAndInfo, i + 1)

\* Line 346: the saved names that exist, each with its node, in the order
\* the dict yields its items.
CardAndInfo(sc, items) ==
    LET hits == SelectSeq(items, LAMBDA it : objExists(sc, it[1]))
    IN  [i \in 1..Len(hits) |-> <<PyNode(sc, hits[i][1]), hits[i][2]>>]

\* The orders a dict of Python 2 can yield its items in.
Orders(items) ==
    {[i \in 1..Len(items) |-> items[p[i]]] :
        p \in {q \in [1..Len(items) -> 1..Len(items)] :
                  \A i, j \in 1..Len(items) : i # j => q[i] # q[j]}}

LoadOutcome(status, error, printed, case) ==
    [status |-> status, error |-> error, printed |-> printed, case |-> case, fresh |-> TRUE]

\* A mutant of loadCardStates that lets the exception of json.loads escape.
loadCardStatesNoCatch(sc, sel, text) ==
    LET parsed == loads(text)
        cardStateInfo == parsed.val
        selectedCards == getSelectedCards(sc, sel)
    IN  IF ~parsed.ok
        THEN {[scene |-> sc, out |-> LoadOutcome("raise", "ValueError", FALSE, "invalid")]}
        ELSE IF cardStateInfo.kind # "dict"
        THEN {[scene |-> sc, out |-> LoadOutcome("raise", "AttributeError", FALSE, "other")]}
        ELSE IF Len(cardStateInfo.items) = 1 /\ Len(selectedCards) = 1
        THEN {[scene |-> sc, out |-> LoadOutcome("raise", "NameError", FALSE, "single")]}
        ELSE {LET r == ApplyAll(sc, CardAndInfo(sc, order), 1)
              IN  [scene |-> r.scene, out |-> LoadOutcome(r.status, r.error, FALSE, "by_name")] :
                 order \in Orders(cardStateInfo.items)}

\* loadCardStates: the scenes it can leave and what the call did, one
\* outcome for each order the dict can yield its items in.
loadCardStates(sc, sel, text) ==
    LET parsed == loads(text)
        cardStateInfo == parsed.val
        selectedCards == getSelectedCards(sc, sel)
    IN  IF ~parsed.ok
        THEN {[scene |-> sc, out |-> LoadOutcome("return", "none", TRUE, "invalid")]}
        ELSE IF cardStateInfo.kind # "dict"
        THEN {[scene |-> sc, out |-> LoadOutcome("raise", "AttributeError", FALSE, "other")]}
        ELSE IF Len(cardStateInfo.items) = 1 /\ Len(selectedCards) = 1
        THEN {[scene |-> sc, out |-> LoadOutcome("raise", "NameError", FALSE, "single")]}
        ELSE {LET r == ApplyAll(sc, CardAndInfo(sc, order), 1)
              IN  [scene |-> r.scene, out |-> LoadOutcome(r.status, r.error, FALSE, "by_name")] :
                 order \in Orders(cardStateInfo.items)}

(***************************************************************************)
(* util.preserveSelection                                                  *)
(***************************************************************************)

\* Longest selection list the user or a wrapped function makes.
MaxSelLen == 2

\* What a wrapped function can return.
FuncValues == {"None", "result"}
NoValue == "<no value>"

\* select(objs) replaces the selection by objs; it raises when one of them
\* is no longer in the scene.
CanSelect(sc, objs) == \A k \in 1..Len(objs) : sc[objs[k]].exists

\* Lines 112-113, after func returned output with the selection at current:
\* the selection and the value the caller gets.  First a mutant that leaves
\* the selection as func left it.
NewFuncFinishNoSelect(sc, current, sel, output) ==
    [pc |-> "returned", selection |-> current, returned |-> output]

NewFuncFinish(sc, current, sel, output) ==
    IF CanSelect(sc, sel)
    THEN [pc |-> "returned", selection |-> sel, returned |-> output]
    ELSE [pc |-> "raised", selection |-> current, returned |-> NoValue]

(***************************************************************************)
(* The calls, one specification per group of operations.  A group that a   *)
(* specification does not exercise stays idle.                             *)
(***************************************************************************)
ParseIdle == ParseReturn(<<>>, <<>>, <<>>)
InflIdle == [op |-> "none", result |-> InflReturn(<<>>)]
BuildIdle ==
    [status |-> "idle", error |-> "none", controls |-> <<>>, dist |-> 0,
     twists |-> <<>>, windows |-> <<>>, exprs |-> <<>>]
BuildArgsIdle ==
    [twistInfDist |-> 0, chainLen |-> 2, ctrlKind |-> "count", ctrlNum |-> MinCVs,
     tipBend |-> TRUE, sourceBend |-> TRUE, useLeadOrient |-> FALSE,
     controlOrient |-> "world", jointAxis |-> "x", jointRot |-> <<"r0", "r0">>,
     closest |-> <<>>, ctrlRot |-> "r0"]

LoadIdle ==
    [status |-> "idle", error |-> "none", printed |-> FALSE, case |-> "none", fresh |-> FALSE]
NotSaved == [done |-> FALSE, cards |-> {}, scene |-> StartScene]
PsIdle == [value |-> NoValue, returned |-> NoValue, changed |-> FALSE]

ParseOff == names = <<>> /\ parseOut = ParseIdle /\ parsePc = "idle"
InflOff == controls = <<>> /\ inflOut = InflIdle /\ inflPc = "idle"
BuildOff == buildArgs = BuildArgsIdle /\ buildOut = BuildIdle /\ buildPc = "idle"
PsOff == psPc = "off" /\ psSel = <<>> /\ psOut = PsIdle
SceneStart ==
    /\ scene = StartScene
    /\ selection = <<>>
    /\ clipboard = <<>>
    /\ edits = 0
    /\ saved = NotSaved
    /\ before = [scene |-> StartScene, selection |-> <<>>]
    /\ loadOut = LoadIdle
SceneOff == SceneStart /\ PsOff

\* ---- parse
InitParse ==
    /\ names \in SeqsUpTo(Alphabet, MaxStrLen)
    /\ parseOut = ParseIdle
    /\ parsePc = "ready"
    /\ InflOff
    /\ BuildOff
    /\ SceneOff

ParseCall ==
    /\ parsePc = "ready"
    /\ parseOut' = parse(names)
    /\ parsePc' = "done"
    /\ UNCHANGED <<names, inflVars, buildVars, sceneVars, psVars>>

NextParse == ParseCall

SpecParse == InitParse /\ [][NextParse]_vars

\* ---- calcInfluence and driverExpression
InitInfluence ==
    /\ controls \in SeqsUpTo(ControlNames \cup {None}, MaxLen)
    /\ inflOut = InflIdle
    /\ inflPc = "ready"
    /\ ParseOff
    /\ BuildOff
    /\ SceneOff

CalcInfluenceCall ==
    /\ inflPc = "ready"
    /\ inflOut' = [op |-> "calcInfluence", result |-> calcInfluence(controls)]
    /\ inflPc' = "done"
    /\ UNCHANGED <<controls, parseVars, buildVars, sceneVars, psVars>>

DriverExpressionCall ==
    /\ inflPc = "ready"
    /\ \E driven \in DrivenNames, axis \in Axes :
          inflOut' = [op |-> "driverExpression",
                      result |-> driverExpression(driven, controls, axis)]
    /\ inflPc' = "done"
    /\ UNCHANGED <<controls, parseVars, buildVars, sceneVars, psVars>>

NextInfluence == CalcInfluenceCall \/ DriverExpressionCall

SpecInfluence == InitInfluence /\ [][NextInfluence]_vars

\* ---- buildSplineTwist
\* The joint each control is closest to: the first control sits on the start
\* joint, the last on the end joint, and the controls follow the chain.
ClosestChoices(numCtrls, chainLen) ==
    {f \in [1..numCtrls -> 1..chainLen] :
        /\ f[1] = 1
        /\ f[numCtrls] = chainLen
        /\ \A k \in 1..(numCtrls - 1) : f[k] <= f[k + 1]}

\* Scenes that vary what the twist set-up reads.
TwistScenes ==
    {[BuildArgsIdle EXCEPT !.twistInfDist = d, !.chainLen = len, !.ctrlKind = kind,
                           !.ctrlNum = n, !.tipBend = tip, !.sourceBend = src,
                           !.jointAxis = axis, !.jointRot = Repeat("r0", len)] :
        d \in 0..MaxInfDist, len \in 2..MaxJoints, kind \in {"count", "curve"},
        n \in MinCVs..MaxCVs, tip \in BOOLEAN, src \in BOOLEAN, axis \in Axes}

\* Scenes that vary what the orientation of the controls reads.
OrientScenes ==
    UNION {
      LET base == [BuildArgsIdle EXCEPT !.chainLen = len, !.tipBend = tip, !.sourceBend = src,
                                        !.useLeadOrient = lead, !.controlOrient = mode]
      IN  {[base EXCEPT !.jointRot = rot, !.closest = cl] :
              rot \in [1..len -> Rotations], cl \in ClosestChoices(CurveCVs(base), len)} :
      len \in 2..MaxOrientJoints, tip \in BOOLEAN, src \in BOOLEAN,
      lead \in BOOLEAN, mode \in OrientModes}

InitBuild ==
    /\ buildArgs \in TwistScenes \cup OrientScenes
    /\ buildOut = BuildIdle
    /\ buildPc = "ready"
    /\ ParseOff
    /\ InflOff
    /\ SceneOff

BuildSplineTwistCall ==
    /\ buildPc = "ready"
    /\ buildOut' = buildSplineTwist(buildArgs)
    /\ buildPc' = "done"
    /\ UNCHANGED <<buildArgs, parseVars, inflVars, sceneVars, psVars>>

NextBuild == BuildSplineTwistCall

SpecBuild == InitBuild /\ [][NextBuild]_vars

\* ---- the scene, saveCardStates and loadCardStates
\* The selections the user makes: nodes of the scene, in the host's order.
SelectionChoices(sc) ==
    {Ascending(S) : S \in {T \in SUBSET Existing(sc) : Cardinality(T) <= MaxUserSel}}

\* Texts the user copies from elsewhere: plain text, a JSON text cut short,
\* a JSON string.
OtherTexts ==
    {<<Tok("text", "hello")>>, <<LBrace, StrTok("A"), Colon>>, <<StrTok("hello")>>}

Settled(sc, sel) ==
    /\ before' = [scene |-> sc, selection |-> sel]
    /\ loadOut' = LoadIdle

Init ==
    /\ SceneStart
    /\ PsOff
    /\ ParseOff
    /\ InflOff
    /\ BuildOff

UserSelect ==
    /\ edits < MaxEdits
    /\ \E sel \in SelectionChoices(scene) :
          /\ sel # selection
          /\ selection' = sel
    /\ edits' = edits + 1
    /\ Settled(scene, selection')
    /\ UNCHANGED <<scene, clipboard, saved, otherVars>>

UserSetAttr ==
    /\ edits < MaxEdits
    /\ \E n \in Existing(scene), a \in AttrNames, v \in Values :
          /\ hasAttr(scene, n, a)
          /\ scene[n].attrs[a] # v
          /\ scene' = [scene EXCEPT ![n].attrs[a] = v]
    /\ edits' = edits + 1
    /\ Settled(scene', selection)
    /\ UNCHANGED <<selection, clipboard, saved, otherVars>>

UserRename ==
    /\ edits < MaxEdits
    /\ \E n \in Cards(scene), name \in NodeNames :
          /\ ~objExists(scene, name)
          /\ scene' = [scene EXCEPT ![n].name = name]
    /\ edits' = edits + 1
    /\ Settled(scene', selection)
    /\ UNCHANGED <<selection, clipboard, saved, otherVars>>

UserDelete ==
    /\ edits < MaxEdits
    /\ \E n \in Cards(scene) :
          /\ scene' = [scene EXCEPT ![n].exists = FALSE]
          /\ selection' = SelectSeq(selection, LAMBDA m : m # n)
    /\ edits' = edits + 1
    /\ Settled(scene', selection')
    /\ UNCHANGED <<clipboard, saved, otherVars>>

UserCopyText ==
    /\ edits < MaxEdits
    /\ \E text \in OtherTexts :
          /\ text # clipboard
          /\ clipboard' = text
    /\ edits' = edits + 1
    /\ saved' = NotSaved
    /\ Settled(scene, selection)
    /\ UNCHANGED <<scene, selection, otherVars>>

SaveCardStates ==
    /\ clipboard' = SavedText(scene, selection)
    /\ saved' = [done |-> TRUE,
                 cards |-> {CardsToSave(scene, selection)[k] :
                               k \in 1..Len(CardsToSave(scene, selection))},
                 scene |-> scene]
    /\ Settled(scene, selection)
    /\ UNCHANGED <<scene, selection, edits, otherVars>>

LoadCardStates ==
    /\ \E r \in loadCardStates(scene, selection, clipboard) :
          /\ scene' = r.scene
          /\ loadOut' = r.out
    /\ before' = [scene |-> scene, selection |-> selection]
    /\ UNCHANGED <<selection, clipboard, edits, saved, otherVars>>

Next ==
    \/ UserSelect
    \/ UserSetAttr
    \/ UserRename
    \/ UserDelete
    \/ UserCopyText
    \/ SaveCardStates
    \/ LoadCardStates

Spec == Init /\ [][Next]_vars

\* ---- preserveSelection around a function that selects, deletes and returns
SelectionLists(sc) ==
    {sel \in SeqsUpTo(Existing(sc), MaxSelLen) :
        \A i, j \in 1..Len(sel) : i # j => sel[i] # sel[j]}

InitSelection ==
    /\ scene = StartScene
    /\ selection \in SelectionLists(StartScene)
    /\ clipboard = <<>>
    /\ edits = 0
    /\ saved = NotSaved
    /\ before = [scene |-> StartScene, selection |-> selection]
    /\ loadOut = LoadIdle
    /\ psPc = "idle"
    /\ psSel = <<>>
    /\ psOut = PsIdle
    /\ ParseOff
    /\ InflOff
    /\ BuildOff

NewFuncCall ==
    /\ psPc = "idle"
    /\ psSel' = selection
    /\ before' = [scene |-> scene, selection |-> selection]
    /\ psPc' = "in_func"
    /\ UNCHANGED <<scene, selection, psOut, psOtherVars>>

FuncSelects ==
    /\ psPc = "in_func"
    /\ \E sel \in SelectionLists(scene) :
          /\ sel # selection
          /\ selection' = sel
    /\ psOut' = [psOut EXCEPT !.changed = TRUE]
    /\ UNCHANGED <<scene, before, psPc, psSel, psOtherVars>>

FuncDeletes ==
    /\ psPc = "in_func"
    /\ \E n \in Existing(scene) :
          /\ scene' = [scene EXCEPT ![n].exists = FALSE]
          /\ selection' = SelectSeq(selection, LAMBDA m : m # n)
    /\ UNCHANGED <<before, psPc, psSel, psOut, psOtherVars>>

FuncReturns ==
    /\ psPc = "in_func"
    /\ \E output \in FuncValues :
          LET r == NewFuncFinish(scene, selection, psSel, output)
          IN  /\ psPc' = r.pc
              /\ selection' = r.selection
              /\ psOut' = [psOut EXCEPT !.value = output, !.returned = r.returned]
    /\ UNCHANGED <<scene, before, psSel, psOtherVars>>

FuncRaises ==
    /\ psPc = "in_func"
    /\ psPc' = "raised"
    /\ UNCHANGED <<scene, selection, before, psSel, psOut, psOtherVars>>

NextSelection ==
    \/ NewFuncCall
    \/ FuncSelects
    \/ FuncDeletes
    \/ FuncReturns
    \/ FuncRaises

SpecSelection == InitSelection /\ [][NextSelection]_vars

-------------------------------------------------------------------------------
\* The names of the argument, as the claims speak of them.
InputNames == Split(names)
StarredNames == {i \in 1..Len(InputNames) : EndsWithStar(InputNames[i])}
InvalidNames ==
    SelectSeq(InputNames, LAMBDA n : ~EndsWithStar(n) /\ ~IsIdentifier(n))

\* C2: when parse returns (head, repeat, tail) and exactly one name ends with
\* '*', head ++ [repeat + '*'] ++ tail is the list of input names in order;
\* when no name ends with '*', head is the full list, repeat is empty and
\* tail is empty.
C2_ParsePartitions ==
    (parsePc = "done" /\ parseOut.status = "return") =>
        /\ Cardinality(StarredNames) = 1 =>
              parseOut.head \o <<Append(parseOut.repeat, Star)>> \o parseOut.tail = InputNames
        /\ Cardinality(StarredNames) = 0 =>
              /\ parseOut.head = InputNames
              /\ parseOut.repeat = <<>>
              /\ parseOut.tail = <<>>

\* A returned call whose repeater stands strictly inside the list.
C2_Witness ==
    /\ parsePc = "done"
    /\ parseOut.status = "return"
    /\ Cardinality(StarredNames) = 1
    /\ parseOut.head # <<>>
    /\ parseOut.tail # <<>>

\* C3 as stated: two or more starred names make parse raise, and any invalid
\* unstarred name makes parse raise the exception that lists the invalid names.
C3_Original ==
    parsePc = "done" =>
        /\ Cardinality(StarredNames) >= 2 => parseOut.status = "raise"
        /\ InvalidNames # <<>> =>
              /\ parseOut.status = "raise"
              /\ parseOut.error = "invalid"
              /\ parseOut.listed = InvalidNames

\* C3 amended: two or more starred names make parse raise (the "multiple"
\* exception, whatever else is wrong); an invalid unstarred name makes parse
\* raise, and the exception lists the invalid names when fewer than two names
\* are starred.
C3_ParseRejects ==
    parsePc = "done" =>
        /\ Cardinality(StarredNames) >= 2 =>
              parseOut.status = "raise" /\ parseOut.error = "multiple"
        /\ InvalidNames # <<>> => parseOut.status = "raise"
        /\ (InvalidNames # <<>> /\ Cardinality(StarredNames) < 2) =>
              /\ parseOut.error = "invalid"
              /\ parseOut.listed = InvalidNames

\* A call rejected for an invalid name beside a single repeater.
C3_Witness ==
    /\ parsePc = "done"
    /\ Cardinality(StarredNames) = 1
    /\ Len(InvalidNames) >= 1
    /\ parseOut.status = "raise"
    /\ parseOut.error = "invalid"

\* C1: for a list of n >= 3 controls calcInfluence returns n weights that are
\* symmetric, 1 at the middle element (n odd) or the two middle elements (n
\* even), falling by one constant step from the middle to 1/2 at both ends;
\* n = 5 gives [1/2, 3/4, 1, 3/4, 1/2] and n = 6 gives
\* [1/2, 3/4, 1, 1, 3/4, 1/2].
C1_InfluenceFalloff ==
    (inflPc = "done" /\ inflOut.op = "calcInfluence" /\ Len(controls) >= 3) =>
        LET n == Len(controls)
            p == inflOut.result.powers
            mid == (n + 1) \div 2
            step == RatSub(p[2], p[1])
        IN  /\ inflOut.result.status = "return"
            /\ Len(p) = n
            /\ \A k \in 1..n : p[k] = p[n + 1 - k]
            /\ p[mid] = <<1, 1>>
            /\ p[n + 1 - mid] = <<1, 1>>
            /\ \A k \in 1..n : (p[k] = <<1, 1>>) => k \in {mid, n + 1 - mid}
            /\ RatLess(<<0, 1>>, step)
            /\ \A k \in 1..(mid - 1) : RatSub(p[k + 1], p[k]) = step
            /\ p[1] = <<1, 2>>
            /\ p[n] = <<1, 2>>
            /\ n = 5 => p = <<(<<1, 2>>), (<<3, 4>>), (<<1, 1>>), (<<3, 4>>), (<<1, 2>>)>>
            /\ n = 6 => p = <<(<<1, 2>>), (<<3, 4>>), (<<1, 1>>), (<<1, 1>>), (<<3, 4>>),
                              (<<1, 2>>)>>

\* calcInfluence has returned for a list of six controls.
C1_Witness ==
    /\ inflPc = "done"
    /\ inflOut.op = "calcInfluence"
    /\ Len(controls) = 6
    /\ inflOut.result.status = "return"

\* The positions of controls that hold a control, in order.
NonePositions == {k \in 1..Len(controls) : controls[k] = None}
CtrlPositions == {k \in 1..Len(controls) : controls[k] # None}
NthCtrlPosition(j) ==
    CHOOSE k \in CtrlPositions : Cardinality({m \in CtrlPositions : m <= k}) = j

TermCtrls(e) == {e.terms[j].ctrl : j \in 1..Len(e.terms)}

C10_LeadOrient ==
    (buildPc = "done" /\ buildOut.status = "return" /\ buildArgs.useLeadOrient) =>
        \A k \in 1..Len(buildOut.controls) :
            buildOut.controls[k].rot = buildArgs.jointRot[1]

\* C4: when a call wrapped by preserveSelection returns normally, the
\* selection is the one the call began with, whatever the function selected
\* or deselected, and the caller gets the function's return value.
C4_SelectionPreserved ==
    psPc = "returned" =>
        /\ selection = before.selection
        /\ psOut.returned = psOut.value

\* A wrapped call began with a selection, its function selected something
\* else and returned a value, and the call returned.
C4_Witness ==
    /\ psPc = "returned"
    /\ psOut.changed
    /\ Len(before.selection) = 2
    /\ psOut.value = "result"

\* The names the clipboard holds after saveCardStates.
SavedNames == {saved.scene[c].name : c \in saved.cards}
SelectedCardCount == Len(getSelectedCards(before.scene, before.selection))

\* C5: after saveCardStates over the cards S and a loadCardStates in the
\* by-name case, every card of S that still exists under its saved name has
\* moRigState and every saved outputShape attribute at its value at save
\* time, and every node whose name is not on the clipboard is as it was
\* before the load.
C5_RoundTripByName ==
    (loadOut.fresh /\ saved.done
        /\ ~(Cardinality(saved.cards) = 1 /\ SelectedCardCount = 1)) =>
        /\ \A c \in saved.cards :
              (scene[c].exists /\ scene[c].name = saved.scene[c].name) =>
                  \A a \in AttrNames :
                      saved.scene[c].attrs[a] # NoAttr =>
                          scene[c].attrs[a] = saved.scene[c].attrs[a]
        /\ \A n \in Nodes : scene[n].name \notin SavedNames => scene[n] = before.scene[n]

\* C6: when the clipboard holds the saved state of exactly one card and
\* exactly one card is selected, loadCardStates gives the selected card the
\* saved moRigState and every saved outputShape attribute it carries,
\* whatever the selected card is called.
C6_SingleCardCopy ==
    (loadOut.fresh /\ saved.done /\ Cardinality(saved.cards) = 1 /\ SelectedCardCount = 1) =>
        LET src == CHOOSE c \in saved.cards : TRUE
            dst == getSelectedCards(before.scene, before.selection)[1]
        IN  \A a \in AttrNames :
                (saved.scene[src].attrs[a] # NoAttr /\ hasAttr(before.scene, dst, a)) =>
                    scene[dst].attrs[a] = saved.scene[src].attrs[a]

\* C7: when the clipboard does not hold valid JSON (json.loads rejects it),
\* loadCardStates reports that, returns without raising and leaves every node and the selection as
\* they were.
C7_InvalidJsonIgnored ==
    (loadOut.fresh /\ ~loads(clipboard).ok) =>
        /\ loadOut.printed
        /\ loadOut.status = "return"
        /\ scene = before.scene
        /\ selection = before.selection

\* loadCardStates ran on a JSON text cut short, in a scene the user changed.
C7_Witness ==
    /\ loadOut.fresh
    /\ clipboard = <<LBrace, StrTok("A"), Colon>>
    /\ loadOut.printed
    /\ scene # StartScene

=============================================================================
